---------------------------- MODULE Spec2Model ----------------------------
(***************************************************************************)
(* Shape-level model of torchsense/models/conv_tasnet.py (the multimodal   *)
(* Conv-TasNet) and of the weight initialisation of                        *)
(* torchsense/models/lit_model/lit_multimodal.py.                          *)
(*                                                                         *)
(* A tensor is the record [err, shape]: err = "none" and shape the         *)
(* sequence of its axis sizes, or err the kind of the exception that the   *)
(* computation raised.  An exception raised by a layer propagates through  *)
(* every later layer, as it does through the Python call stack.            *)
(***************************************************************************)
EXTENDS Integers, Sequences, FiniteSets, TLC

VARIABLES
    pc,               \* where the call being modelled stands
    cfg,              \* the constructor arguments of the module under study
    z, x,             \* the secondary and the primary input tensor
    w, w_acc,         \* the outputs of the two encoders
    out,              \* what the call returned, or the exception it raised
    dep,              \* the dependency map of a block's output
    separation,       \* Separation.separation, the list of blocks
    r, xb,            \* the loop variables r and x of Separation.__init__
    i,                \* the loop variable of Separation.forward
    applied,          \* the dilations of the blocks forward has applied, in order
    skip_connection,  \* the skip output / the accumulator of the skip outputs
    model,            \* the module tree given to LitMultimodalModel
    todo,             \* the modules Module.apply has still to visit
    visited, inited   \* the modules weights_init was called on / initialised

vars == <<pc, cfg, z, x, w, w_acc, out, dep, separation, r, xb, i, applied,
          skip_connection, model, todo, visited, inited>>

(***************************************************************************)
(* Bounds of the model.                                                    *)
(***************************************************************************)
MaxBatch == 2
MaxN == 3
MaxL == 5
MaxT == 12
MaxP == 4
MaxDil == 4
MaxFrames == 6
MaxX == 3
MaxR == 2
MaxT1 == 9
MaxT2 == 3
MaxSpks == 2

(***************************************************************************)
(* Tensors                                                                 *)
(***************************************************************************)
Tensor(shape) == [err |-> "none", shape |-> shape]

Raise(kind) == [err |-> kind, shape |-> <<>>]

None == [err |-> "unset", shape |-> <<>>]

\* An operator of TLA+ takes its arguments by name; Strict(F, t) and
\* Strict2(F, a, b) evaluate them once and apply F to the values.
Strict(F(_), t) == CHOOSE res \in { F(u) : u \in {t} } : TRUE

Strict2(F(_, _), a, b) ==
    CHOOSE res \in { F(p[1], p[2]) : p \in {<<a, b>>} } : TRUE

IsTensor(t) == t.err = "none"

Rank(t) == Len(t.shape)

RECURSIVE Pow2(_)
Pow2(n) == IF n = 0 THEN 1 ELSE 2 * Pow2(n - 1)

\* torch.squeeze(x): every axis of size 1 is removed.
RECURSIVE SqueezeAll(_)
SqueezeAll(shape) ==
    IF shape = <<>> THEN <<>>
    ELSE IF Head(shape) = 1 THEN SqueezeAll(Tail(shape))
         ELSE <<Head(shape)>> \o SqueezeAll(Tail(shape))

\* torch.squeeze(x, dim=d), d counted from 0: axis d is removed when its size is 1.
SqueezeDim(shape, d) ==
    IF d + 1 <= Len(shape) /\ shape[d + 1] = 1
    THEN SubSeq(shape, 1, d) \o SubSeq(shape, d + 2, Len(shape))
    ELSE shape

\* torch.unsqueeze(x, d), d counted from 0.
Unsqueeze(shape, d) ==
    SubSeq(shape, 1, d) \o <<1>> \o SubSeq(shape, d + 1, Len(shape))

\* nn.PReLU() (one shared slope): elementwise, the shape is kept.
PReLU(t) == t

\* nn.Conv1d(cin, cout, k, stride, padding, dilation).forward on a
\* (batch, channels, length) tensor.
Conv1dBatched(c, t) ==
    IF t.shape[2] # c.cin THEN Raise("RuntimeError")
    ELSE IF t.shape[3] + 2 * c.padding < c.dilation * (c.k - 1) + 1
         THEN Raise("RuntimeError")
    ELSE Tensor(<<t.shape[1], c.cout,
                  ((t.shape[3] + 2 * c.padding - c.dilation * (c.k - 1) - 1)
                      \div c.stride) + 1>>)

\* nn.ConvTranspose1d(cin, cout, k, stride, padding).forward on a
\* (batch, channels, length) tensor.
ConvTranspose1dBatched(c, t) ==
    IF t.shape[2] # c.cin THEN Raise("RuntimeError")
    ELSE IF (t.shape[3] - 1) * c.stride - 2 * c.padding + (c.k - 1) + 1 <= 0
         THEN Raise("RuntimeError")
    ELSE Tensor(<<t.shape[1], c.cout,
                  (t.shape[3] - 1) * c.stride - 2 * c.padding + (c.k - 1) + 1>>)

\* A (channels, length) input is convolved as a batch of one and the batch
\* axis is removed again; any other rank is refused.
Unbatched(res) ==
    Strict(LAMBDA v : IF IsTensor(v) THEN Tensor(Tail(v.shape)) ELSE v, res)

nnConv1d(c, t) ==
    Strict(LAMBDA v :
      IF ~IsTensor(v) THEN v
      ELSE IF Rank(v) = 3 THEN Conv1dBatched(c, v)
      ELSE IF Rank(v) = 2 THEN Unbatched(Conv1dBatched(c, Tensor(<<1>> \o v.shape)))
      ELSE Raise("RuntimeError"),
      t)

nnConvTranspose1d(c, t) ==
    Strict(LAMBDA v :
      IF ~IsTensor(v) THEN v
      ELSE IF Rank(v) = 3 THEN ConvTranspose1dBatched(c, v)
      ELSE IF Rank(v) = 2
           THEN Unbatched(ConvTranspose1dBatched(c, Tensor(<<1>> \o v.shape)))
      ELSE Raise("RuntimeError"),
      t)

Conv(cin, cout, k, stride, padding, dilation) ==
    [cin |-> cin, cout |-> cout, k |-> k, stride |-> stride,
     padding |-> padding, dilation |-> dilation]

\* Conv1D.forward: the rank check formats its message with self.__name__,
\* which no nn.Module instance has, so that the attribute lookup raises
\* before the RuntimeError is built.
Conv1D(c, t) ==
    Strict(LAMBDA v :
      IF ~IsTensor(v) THEN v
      ELSE IF Rank(v) \notin {2, 3} THEN Raise("AttributeError")
      ELSE nnConv1d(c, IF Rank(v) = 3 THEN v ELSE Tensor(Unsqueeze(v.shape, 1))),
      t)

\* Encoder.__init__ / Encoder.forward: the nn.Sequential of the strided
\* convolution and the three refinement convolutions.
EncoderStem(in_channels, out_channels, kernel_size, stride, t) ==
    Conv1D(Conv(in_channels, out_channels, kernel_size, stride, 0, 1), t)

\* A refinement stage whose convolution lacks its padding of 1.
RefineUnpadded(channels, t) ==
    PReLU(Conv1D(Conv(channels, channels, 3, 1, 0, 1), t))

\* One refinement stage: a kernel-3, stride-1, padding-1 Conv1D and its PReLU.
Refine(channels, t) ==
    PReLU(Conv1D(Conv(channels, channels, 3, 1, 1, 1), t))

Encoder(in_channels, out_channels, kernel_size, stride, t) ==
    Refine(out_channels,
      Refine(out_channels,
        Refine(out_channels,
          EncoderStem(in_channels, out_channels, kernel_size, stride, t))))

\* An AccEncoder whose transposed convolution lacks its padding of 1.
AccEncoderUnpadded(in_channels, out_channels, t) ==
    Refine(out_channels,
      Refine(out_channels,
        nnConvTranspose1d(Conv(in_channels, out_channels, 3, 2, 0, 1), t)))

\* AccEncoder.__init__ / AccEncoder.forward: the upsampling transposed
\* convolution and two refinement convolutions.
AccEncoder(in_channels, out_channels, t) ==
    Refine(out_channels,
      Refine(out_channels,
        nnConvTranspose1d(Conv(in_channels, out_channels, 3, 2, 1, 1), t)))

\* Decoder.__init__: three same-padded transposed convolutions, then the
\* transposed convolution back to one channel.
\* A decoder whose last stage strides by the whole kernel.
DecoderSequentialFullStride(N, kernel_size, stride, t) ==
    LET up(u) == PReLU(nnConvTranspose1d(Conv(N, N, 3, 1, 1, 1), u))
    IN  nnConvTranspose1d(Conv(N, 1, kernel_size, kernel_size, 0, 1), up(up(up(t))))

DecoderSequential(N, kernel_size, stride, t) ==
    LET up(u) == PReLU(nnConvTranspose1d(Conv(N, N, 3, 1, 1, 1), u))
    IN  nnConvTranspose1d(Conv(N, 1, kernel_size, stride, 0, 1), up(up(up(t))))

\* A decoder that squeezes every singleton axis, the batch axis included.
DecoderSqueezeEverything(t) ==
    Strict(LAMBDA v : IF ~IsTensor(v) THEN v ELSE Tensor(SqueezeAll(v.shape)), t)

\* Decoder.forward: the squeeze of the sequential's output.
DecoderSqueeze(t) ==
    Strict(LAMBDA v :
      IF ~IsTensor(v) THEN v
      ELSE IF Len(SqueezeAll(v.shape)) = 1
           THEN Tensor(SqueezeDim(v.shape, 1))
           ELSE Tensor(SqueezeAll(v.shape)),
      t)

Decoder(N, kernel_size, stride, t) ==
    DecoderSqueeze(DecoderSequential(N, kernel_size, stride, t))

(***************************************************************************)
(* Broadcasting of two shapes (aligned at the last axis), as the           *)
(* elementwise operators +, * and / of the tensor library do it.           *)
(***************************************************************************)
PadLeft(shape, n) == [j \in 1..n |-> IF j <= n - Len(shape) THEN 1
                                      ELSE shape[j - (n - Len(shape))]]

Max(a, b) == IF a >= b THEN a ELSE b

Broadcastable(s1, s2) ==
    LET n == Max(Len(s1), Len(s2))
        a == PadLeft(s1, n)
        b == PadLeft(s2, n)
    IN  \A j \in 1..n : a[j] = b[j] \/ a[j] = 1 \/ b[j] = 1

BroadcastShape(s1, s2) ==
    LET n == Max(Len(s1), Len(s2))
        a == PadLeft(s1, n)
        b == PadLeft(s2, n)
    IN  [j \in 1..n |-> IF a[j] = 1 THEN b[j] ELSE a[j]]

\* a + b (or a * b): the left operand is evaluated first.
Add(a, b) ==
    Strict2(LAMBDA p, q :
      IF ~IsTensor(p) THEN p
      ELSE IF ~IsTensor(q) THEN q
      ELSE IF ~Broadcastable(p.shape, q.shape) THEN Raise("RuntimeError")
      ELSE Tensor(BroadcastShape(p.shape, q.shape)),
      a, b)

(***************************************************************************)
(* Normalisation                                                           *)
(***************************************************************************)
Norms == {"gln", "cln", "bn"}

\* GlobalLayerNorm.forward: the rank check formats its message with
\* self.__name__ (see Conv1D); mean and var keep their axes, and the
\* (dim, 1) weight and bias broadcast against the (N, C, L) input.
GlobalLayerNorm(dim, t) ==
    Strict(LAMBDA v :
      IF ~IsTensor(v) THEN v
      ELSE IF Rank(v) # 3 THEN Raise("AttributeError")
      ELSE Add(Tensor(<<dim, 1>>), v),
      t)

\* CumulativeLayerNorm.forward: nn.LayerNorm(dim) between two transposes
\* of the axes 1 and 2.
CumulativeLayerNorm(dim, t) ==
    Strict(LAMBDA v :
      IF ~IsTensor(v) THEN v
      ELSE IF Rank(v) < 3 THEN Raise("IndexError")
      ELSE LET tr == [j \in 1..Rank(v) |-> IF j = 2 THEN v.shape[3]
                                            ELSE IF j = 3 THEN v.shape[2]
                                            ELSE v.shape[j]]
           IN  IF tr[Rank(v)] # dim THEN Raise("RuntimeError") ELSE v,
      t)

\* nn.BatchNorm1d(dim).forward: in training mode it refuses an input with a
\* single value per channel.
BatchNorm1d(dim, training, t) ==
    Strict(LAMBDA v :
      IF ~IsTensor(v) THEN v
      ELSE IF Rank(v) \notin {2, 3} THEN Raise("ValueError")
      ELSE IF training /\ v.shape[1] * (IF Rank(v) = 3 THEN v.shape[3] ELSE 1) = 1
           THEN Raise("ValueError")
      ELSE IF v.shape[2] # dim THEN Raise("RuntimeError")
      ELSE v,
      t)

\* select_norm(norm, dim), applied: any tag other than 'gln' and 'cln'
\* selects batch normalisation.
select_norm(norm, dim, training, t) ==
    IF norm = "gln" THEN GlobalLayerNorm(dim, t)
    ELSE IF norm = "cln" THEN CumulativeLayerNorm(dim, t)
    ELSE BatchNorm1d(dim, training, t)

(***************************************************************************)
(* Conv1D_Block                                                            *)
(***************************************************************************)
\* The padding of the causal mode, used in either mode.
BlockPadFull(kernel_size, dilation, causal) == dilation * (kernel_size - 1)

\* Conv1D_Block.__init__: the padding of the depthwise convolution.
BlockPad(kernel_size, dilation, causal) ==
    IF ~causal THEN (dilation * (kernel_size - 1)) \div 2
    ELSE dilation * (kernel_size - 1)

Conv1D_Block(in_channels, out_channels, kernel_size, dilation, norm, causal, skip_con, training) ==
    [in_channels |-> in_channels, out_channels |-> out_channels,
     kernel_size |-> kernel_size, dilation |-> dilation, norm |-> norm,
     pad |-> BlockPad(kernel_size, dilation, causal),
     causal |-> causal, skip_con |-> skip_con, training |-> training]

\* c[:, :, :-pad]: the frames before the last pad ones; with pad = 0 the
\* slice :-0 is the slice :0, which is empty.
TrimFrames(n, pad) == IF pad = 0 THEN 0 ELSE Max(n - pad, 0)

Trim(pad, t) ==
    Strict(LAMBDA v :
      IF ~IsTensor(v) THEN v
      ELSE IF Rank(v) # 3 THEN Raise("IndexError")
      ELSE Tensor(<<v.shape[1], v.shape[2], TrimFrames(v.shape[3], pad)>>),
      t)

\* Conv1D_Block.forward up to the trimming: conv1x1, PReLU_1, norm_1,
\* dwconv, PReLU_2, norm_2, and the causal trim.
BlockBody(blk, t) ==
    LET c1 == PReLU(Conv1D(Conv(blk.in_channels, blk.out_channels, 1, 1, 0, 1), t))
        c2 == select_norm(blk.norm, blk.out_channels, blk.training, c1)
        c3 == PReLU(Conv1D(Conv(blk.out_channels, blk.out_channels,
                                blk.kernel_size, 1, blk.pad, blk.dilation), c2))
        c4 == select_norm(blk.norm, blk.out_channels, blk.training, c3)
    IN  IF blk.causal THEN Trim(blk.pad, c4) ELSE c4

\* Conv1D_Block.forward: what it returns, [Sc, c]; Sc is None without skip
\* connections.  An exception leaves nothing returned: both fields hold it.
BlockForward(blk, t) ==
    Strict2(LAMBDA v, c :
      LET Sc  == nnConv1d(Conv(blk.out_channels, blk.in_channels, 1, 1, 0, 1), c)
          o   == nnConv1d(Conv(blk.out_channels, blk.in_channels, 1, 1, 0, 1), c)
      IN  Strict(LAMBDA sum :
            IF ~IsTensor(sum) THEN [Sc |-> sum, c |-> sum]
            ELSE [Sc |-> IF blk.skip_con THEN Sc ELSE None, c |-> sum],
            IF blk.skip_con THEN Add(o, v) ELSE Add(v, o)),
      t, BlockBody(blk, t))

(***************************************************************************)
(* Which input frames an output frame is computed from.  A dependency map  *)
(* is a sequence with one entry per frame: the set of the positions        *)
(* (counted from 1) of the block-input frames that the frame is a function *)
(* of.  All channels of a frame share the entry: every stage of the block  *)
(* but the depthwise convolution mixes the channels.                       *)
(***************************************************************************)
InputDep(n) == [j \in 1..n |-> {j}]

AllOf(d) == UNION { d[j] : j \in 1..Len(d) }

\* A convolution: output frame j reads the padded input at the taps
\* (j-1)*stride + k*dilation, k = 0..kernel-1.
ConvDep(c, d) ==
    Strict(LAMBDA v :
      LET n == ((Len(v) + 2 * c.padding - c.dilation * (c.k - 1) - 1) \div c.stride) + 1
      IN  [j \in 1..n |->
             UNION { v[p] : p \in { q \in 1..Len(v) :
                       \E k \in 0..(c.k - 1) :
                          q = (j - 1) * c.stride + k * c.dilation - c.padding + 1 } }],
      d)

\* gln: one mean and variance over channels and time.  cln: per frame.
\* bn: the batch statistics over batch and time when training, the running
\* statistics otherwise.
NormDep(norm, training, d) ==
    Strict(LAMBDA v :
      IF norm = "gln" THEN [j \in 1..Len(v) |-> AllOf(v)]
      ELSE IF norm = "cln" THEN v
      ELSE IF training THEN [j \in 1..Len(v) |-> AllOf(v)]
      ELSE v,
      d)

TrimDep(pad, d) ==
    Strict(LAMBDA v :
   SubSeq(v, 1, TrimFrames(Len(v), pad)),
      d)

\* The dependency map of a + b, one of which may be broadcast over the frames.
AddDep(a, b) ==
    Strict2(LAMBDA p, q :
      [j \in 1..(IF Len(p) = 1 THEN Len(q) ELSE Len(p)) |->
          (IF Len(p) = 1 THEN p[1] ELSE p[j])
             \cup (IF Len(q) = 1 THEN q[1] ELSE q[j])],
      a, b)

\* Conv1D_Block.forward, for a forward pass that raises nothing: the
\* dependency map of the residual sum.
BlockDep(blk, d) ==
    LET c1 == ConvDep(Conv(blk.in_channels, blk.out_channels, 1, 1, 0, 1), d)
        c2 == NormDep(blk.norm, blk.training, c1)
        c3 == ConvDep(Conv(blk.out_channels, blk.out_channels,
                           blk.kernel_size, 1, blk.pad, blk.dilation), c2)
        c4 == NormDep(blk.norm, blk.training, c3)
        c5 == IF blk.causal THEN TrimDep(blk.pad, c4) ELSE c4
        o  == ConvDep(Conv(blk.out_channels, blk.in_channels, 1, 1, 0, 1), c5)
    IN  AddDep(o, d)

(***************************************************************************)
(* Separation                                                              *)
(***************************************************************************)
\* The block appended when the dilation exponent is the number of the
\* blocks built so far, across the repeats.
SeparationAppendNoReset(c, blocks, xx) ==
    Append(blocks, Conv1D_Block(c.B, c.H, c.P, Pow2(Len(blocks)), c.norm,
                                c.causal, c.skip_con, c.training))

\* Separation.__init__, the body of the inner loop: the block of index xx
\* of a repeat is appended with dilation 2 ** xx.
SeparationAppend(c, blocks, xx) ==
    Append(blocks, Conv1D_Block(c.B, c.H, c.P, Pow2(xx), c.norm,
                                c.causal, c.skip_con, c.training))

\* Separation.__init__: for r in range(R): for x in range(X): append.
RECURSIVE SeparationBuild(_, _, _, _)
SeparationBuild(c, rr, xx, blocks) ==
    IF rr = c.R THEN blocks
    ELSE IF xx = c.X THEN SeparationBuild(c, rr + 1, 0, blocks)
    ELSE SeparationBuild(c, rr, xx + 1, SeparationAppend(c, blocks, xx))

\* skip_connection = 0 before the loop of Separation.forward.
Zero == Tensor(<<>>)

\* Separation.forward, the body of either loop, on st = [x, skip_connection].
SeparationIter(blk, st) ==
    Strict(LAMBDA v :
      LET res == BlockForward(blk, v.x)
      IN  IF ~IsTensor(res.c)
          THEN [x |-> res.c, skip_connection |-> res.c]
          ELSE IF blk.skip_con
               THEN [x |-> res.c, skip_connection |-> Add(v.skip_connection, res.Sc)]
               ELSE [x |-> res.c, skip_connection |-> v.skip_connection],
      st)

RECURSIVE SeparationLoop(_, _, _)
SeparationLoop(blocks, j, st) ==
    Strict2(LAMBDA bs, v :
      IF j > Len(bs) \/ ~IsTensor(v.x) THEN v
      ELSE SeparationLoop(bs, j + 1, SeparationIter(bs[j], v)),
      blocks, st)

\* Separation.forward: the sum of the skip outputs with skip connections,
\* the residual stream without.
SeparationForward(blocks, skip_con, t) ==
    Strict(LAMBDA st :
      IF ~IsTensor(st.x) THEN st.x
      ELSE IF skip_con THEN st.skip_connection ELSE st.x,
      SeparationLoop(blocks, 1, [x |-> t, skip_connection |-> Zero]))

(***************************************************************************)
(* ConvTasNet                                                              *)
(***************************************************************************)
\* torch.cat((a, b), dim=1): the operands agree in rank and in every axis
\* but the channel axis.
Cat1(a, b) ==
    Strict2(LAMBDA p, q :
      IF ~IsTensor(p) THEN p
      ELSE IF ~IsTensor(q) THEN q
      ELSE IF Rank(p) # Rank(q) \/ Rank(p) < 2 THEN Raise("RuntimeError")
      ELSE IF \E j \in 1..Rank(p) : j # 2 /\ p.shape[j] # q.shape[j]
           THEN Raise("RuntimeError")
      ELSE Tensor([j \in 1..Rank(p) |-> IF j = 2 THEN p.shape[2] + q.shape[2]
                                         ELSE p.shape[j]]),
      a, b)

\* torch.chunk(m, chunks, dim=1)[k]: chunks of ceil(C / chunks) channels.
Chunk1(m, chunks) ==
    Strict(LAMBDA v :
      IF ~IsTensor(v) THEN v
      ELSE Tensor([j \in 1..Rank(v) |->
                     IF j = 2 THEN (v.shape[2] + chunks - 1) \div chunks
                     ELSE v.shape[j]]),
      m)

\* self.activation: ReLU and Sigmoid are elementwise, Softmax(dim=0)
\* normalises over the speaker axis; each keeps the shape.
Activation(activate, t) == t

\* tensor.unsqueeze(1)
Unsqueeze1(t) ==
    Strict(LAMBDA v :
   IF IsTensor(v) THEN Tensor(Unsqueeze(v.shape, 1)) ELSE v,
      t)

\* ConvTasNet.forward from the outputs of the two encoders on: layer
\* normalisation and bottleneck of either branch, concatenation, fusion,
\* separation, masks, masking of the primary encoding, decoding, and the
\* first speaker's waveform with its channel axis.
ConvTasNetTail(c, enc, enc_acc) ==
    LET blocks == SeparationBuild(c, 0, 0, <<>>)
        e     == Conv1D(Conv(c.N, c.B, 1, 1, 0, 1), CumulativeLayerNorm(c.N, enc))
        e_acc == Conv1D(Conv(c.N \div 2, c.B, 1, 1, 0, 1),
                        CumulativeLayerNorm(c.N \div 2, enc_acc))
        fused == nnConv1d(Conv(2 * c.B, c.B, 1, 1, 0, 1), Cat1(e, e_acc))
        sep   == SeparationForward(blocks, c.skip_con, fused)
        m     == Activation(c.activate,
                            Chunk1(Conv1D(Conv(c.B, c.num_spks * c.N, 1, 1, 0, 1), sep),
                                   c.num_spks))
        d     == Add(enc, m)
        s     == Decoder(c.N, c.L, c.L \div 2, d)
    IN  IF ~IsTensor(enc) THEN enc
        ELSE IF ~IsTensor(enc_acc) THEN enc_acc
        ELSE Unsqueeze1(s)

(***************************************************************************)
(* Encoder followed by Decoder, as ConvTasNet.__init__ configures them:    *)
(* Encoder(1, N, L, stride = L // 2) and Decoder(N, L, stride = L // 2).   *)
(***************************************************************************)
Waveforms ==
    { <<b, t>> : b \in 1..MaxBatch, t \in 1..MaxT }
      \cup { <<b, c, t>> : b \in 1..MaxBatch, c \in 1..2, t \in 1..MaxT }
      \cup { <<b, 1, 1, t>> : b \in 1..MaxBatch, t \in 1..MaxT }
      \cup { <<t>> : t \in 1..MaxT }

\* Nothing has been computed, built or visited yet.
Fresh ==
    /\ w = None /\ w_acc = None /\ out = None /\ dep = <<>>
    /\ separation = <<>> /\ r = 0 /\ xb = 0 /\ i = 0 /\ applied = <<>>
    /\ skip_connection = None
    /\ todo = <<>> /\ visited = {} /\ inited = {}

sepVars == <<separation, r, xb, i, applied>>

litVars == <<model, todo, visited, inited>>

InitEnc ==
    /\ pc = "encoder"
    /\ cfg \in [N : 1..MaxN, L : 2..MaxL]
    /\ x \in { Tensor(sh) : sh \in Waveforms }
    /\ z = None /\ model = <<>>
    /\ Fresh

EncoderForward ==
    /\ pc = "encoder"
    /\ w' = Encoder(1, cfg.N, cfg.L, cfg.L \div 2, x)
    /\ pc' = IF IsTensor(w') THEN "decoder" ELSE "raised"
    /\ UNCHANGED <<cfg, z, x, w_acc, out, dep, skip_connection, sepVars, litVars>>

DecoderForward ==
    /\ pc = "decoder"
    /\ out' = Decoder(cfg.N, cfg.L, cfg.L \div 2, w)
    /\ pc' = IF IsTensor(out') THEN "done" ELSE "raised"
    /\ UNCHANGED <<cfg, z, x, w, w_acc, dep, skip_connection, sepVars, litVars>>

NextEnc == EncoderForward \/ DecoderForward

SpecEnc == InitEnc /\ [][NextEnc]_vars

\* The input is a (batch, 1, T) waveform with T >= L.
ValidWaveform == Rank(x) = 3 /\ x.shape[2] = 1 /\ x.shape[3] >= cfg.L

\* C3: the Encoder turns a (batch, 1, T) waveform, T >= L, into N channels
\* of floor((T - L) / stride) + 1 frames, stride = L // 2, and the three
\* refinement convolutions leave the frame count of the strided
\* convolution unchanged.
C3_EncoderFrames ==
    (pc # "encoder" /\ ValidWaveform)
    => /\ w = Tensor(<<x.shape[1], cfg.N,
                       ((x.shape[3] - cfg.L) \div (cfg.L \div 2)) + 1>>)
       /\ w.shape[3] = EncoderStem(1, cfg.N, cfg.L, cfg.L \div 2, x).shape[3]

C3_Witness ==
    /\ pc = "decoder" /\ cfg.L = 4 /\ cfg.N = 3
    /\ x.shape = <<2, 1, 7>> /\ w.shape = <<2, 3, 2>>

\* C4: encoding a waveform of length T >= L and decoding the result gives
\* a waveform of length T' with T' <= T and T - T' < stride, and T' = T
\* exactly when T - L is a multiple of the stride.
C4_RoundTripLength ==
    (pc \notin {"encoder", "decoder"} /\ ValidWaveform)
    => /\ pc = "done"
       /\ LET T  == x.shape[3]
              T1 == out.shape[Len(out.shape)]
          IN  /\ T1 <= T
              /\ T - T1 < cfg.L \div 2
              /\ (T1 = T) <=> ((T - cfg.L) % (cfg.L \div 2) = 0)

C4_Witness ==
    /\ pc = "done" /\ cfg.L = 5 /\ x.shape = <<1, 1, 8>> /\ out.shape = <<1, 7>>

\* C8: an input whose rank is outside {2, 3} ends the Encoder with the
\* RuntimeError of the rank check and no result; a 2-axis input gets a
\* channel axis and a 3-axis input is taken as it is.
C8_RankErrorIsRuntimeError ==
    pc # "encoder"
    => /\ Rank(x) \notin {2, 3} => (pc = "raised" /\ w.err = "RuntimeError")
       /\ (Rank(x) = 2 /\ x.shape[2] >= cfg.L)
             => w = Encoder(1, cfg.N, cfg.L, cfg.L \div 2,
                            Tensor(<<x.shape[1], 1, x.shape[2]>>))
       /\ (Rank(x) = 3 /\ ValidWaveform) => IsTensor(w)

(***************************************************************************)
(* One Conv1D_Block applied to one (batch, channels, frames) tensor.       *)
(***************************************************************************)
Channels == {1, 2}

InitBlock ==
    /\ pc = "block"
    /\ cfg \in { Conv1D_Block(B, H, P, d, norm, causal, skip_con, training) :
                   B \in Channels, H \in Channels, P \in 1..MaxP, d \in 1..MaxDil,
                   norm \in Norms, causal \in BOOLEAN, skip_con \in BOOLEAN,
                   training \in BOOLEAN }
    /\ x \in { Tensor(<<b, c, t>>) :
                   b \in 1..MaxBatch, c \in Channels, t \in 1..MaxFrames }
    /\ z = None /\ model = <<>>
    /\ Fresh

BlockCall ==
    /\ pc = "block"
    /\ LET res == BlockForward(cfg, x)
       IN  /\ out' = res.c
           /\ skip_connection' = res.Sc
           /\ dep' = IF IsTensor(res.c) THEN BlockDep(cfg, InputDep(x.shape[3]))
                     ELSE <<>>
           /\ pc' = IF IsTensor(res.c) THEN "done" ELSE "raised"
    /\ UNCHANGED <<cfg, z, x, w, w_acc, sepVars, litVars>>

NextBlock == BlockCall

SpecBlock == InitBlock /\ [][NextBlock]_vars

\* Batch normalisation in training mode refuses a single value per channel.
SingleValue(blk, t) ==
    blk.norm \notin {"gln", "cln"} /\ blk.training /\ t.shape[1] * t.shape[3] = 1

C6_CausalKeepsFrames ==
    (pc # "block" /\ cfg.causal /\ x.shape[2] = cfg.in_channels
       /\ ~SingleValue(cfg, x))
    => /\ pc = "done"
       /\ out.shape[3] = x.shape[3]

\* C9: in causal mode frame t of the block's output is a function of the
\* input frames at positions <= t only, whatever the normalisation.
C9_NoFutureLeak ==
    (pc = "done" /\ cfg.causal)
    => \A t \in 1..Len(dep) : dep[t] \subseteq 1..t

(***************************************************************************)
(* Separation built block by block and then run on one tensor.             *)
(***************************************************************************)
InitSep ==
    /\ pc = "sep_init"
    /\ cfg \in [R : 1..MaxR, X : 1..MaxX, B : Channels, H : {2}, P : 1..MaxP,
                norm : Norms, causal : BOOLEAN, skip_con : BOOLEAN,
                training : {TRUE}]
    /\ x \in { Tensor(<<b, cfg.B, t>>) :
                 b \in 1..MaxBatch, t \in (MaxFrames - 1)..MaxFrames }
    /\ z = None /\ model = <<>>
    /\ Fresh

\* One pass of the inner loop of Separation.__init__.
AppendBlock ==
    /\ pc = "sep_init" /\ r < cfg.R /\ xb < cfg.X
    /\ separation' = SeparationAppend(cfg, separation, xb)
    /\ xb' = xb + 1
    /\ UNCHANGED <<pc, cfg, z, x, w, w_acc, out, dep, r, i, applied,
                   skip_connection, litVars>>

\* The inner loop is exhausted: the next repeat starts at x = 0.
NextRepeat ==
    /\ pc = "sep_init" /\ r < cfg.R /\ xb = cfg.X
    /\ r' = r + 1
    /\ xb' = 0
    /\ UNCHANGED <<pc, cfg, z, x, w, w_acc, out, dep, separation, i, applied,
                   skip_connection, litVars>>

\* The module is built; forward is entered.
EnterForward ==
    /\ pc = "sep_init" /\ r = cfg.R
    /\ pc' = "sep_forward"
    /\ i' = 0
    /\ skip_connection' = Zero
    /\ UNCHANGED <<cfg, z, x, w, w_acc, out, dep, separation, r, xb, applied,
                   litVars>>

\* One pass of the loop of Separation.forward.
ForwardIter ==
    /\ pc = "sep_forward" /\ i < Len(separation)
    /\ LET st == SeparationIter(separation[i + 1],
                                [x |-> x, skip_connection |-> skip_connection])
       IN  /\ x' = st.x
           /\ skip_connection' = st.skip_connection
           /\ out' = IF IsTensor(st.x) THEN out ELSE st.x
           /\ pc' = IF IsTensor(st.x) THEN pc ELSE "raised"
    /\ applied' = Append(applied, separation[i + 1].dilation)
    /\ i' = i + 1
    /\ UNCHANGED <<cfg, z, w, w_acc, dep, separation, r, xb, litVars>>

ForwardReturn ==
    /\ pc = "sep_forward" /\ i = Len(separation)
    /\ out' = IF cfg.skip_con THEN skip_connection ELSE x
    /\ pc' = "done"
    /\ UNCHANGED <<cfg, z, x, w, w_acc, dep, separation, r, xb, i, applied,
                   skip_connection, litVars>>

NextSep == AppendBlock \/ NextRepeat \/ EnterForward \/ ForwardIter \/ ForwardReturn

SpecSep == InitSep /\ [][NextSep]_vars

\* C7: Separation holds exactly R*X blocks, the block at position r*X + x
\* has dilation 2^x (1, 2, 4, ..., 2^(X-1) in every repeat), and forward
\* applies the blocks in the order of their construction.
C7_Dilations ==
    /\ \A j \in 1..Len(separation) : separation[j].dilation = 2 ^ ((j - 1) % cfg.X)
    /\ pc # "sep_init"
         => /\ Len(separation) = cfg.R * cfg.X
            /\ \A rr \in 0..(cfg.R - 1) : \A xx \in 0..(cfg.X - 1) :
                  separation[rr * cfg.X + xx + 1].dilation = 2 ^ xx
            /\ applied = [j \in 1..i |-> 2 ^ ((j - 1) % cfg.X)]
    /\ pc = "done" => i = cfg.R * cfg.X

C7_Witness ==
    /\ pc = "done" /\ cfg.R = 2 /\ cfg.X = 3
    /\ applied = <<1, 2, 4, 1, 2, 4>>

(***************************************************************************)
(* ConvTasNet.forward on a batch (z, x).                                   *)
(***************************************************************************)
NetConfig(N, L, B, H, P, X, R, norm, num_spks, activate, causal, skip_con, training) ==
    [N |-> N, L |-> L, B |-> B, H |-> H, P |-> P, X |-> X, R |-> R,
     norm |-> norm, num_spks |-> num_spks, activate |-> activate,
     causal |-> causal, skip_con |-> skip_con, training |-> training]

\* The defaults of ConvTasNet.__init__.
DefaultN == 512
DefaultL == 16
DefaultB == 128
DefaultH == 512
DefaultP == 3
DefaultX == 8
DefaultR == 3
DefaultSpks == 2

DefaultConfig ==
    NetConfig(DefaultN, DefaultL, DefaultB, DefaultH, DefaultP, DefaultX,
              DefaultR, "gln", DefaultSpks, "relu", FALSE, FALSE, TRUE)

\* The batch of test_convtasnet.
TestBatchSize == 2
TestPrimaryLen == 80000
TestSecondaryLen == 5000

NetConfigs ==
    { NetConfig(2, L, 2, 2, P, X, R, norm, 2, "relu", causal, skip_con, TRUE) :
        L \in 2..MaxL, P \in 1..MaxP, X \in 1..MaxX, R \in 1..MaxR,
        norm \in Norms, causal \in BOOLEAN, skip_con \in BOOLEAN }
    \cup
    { NetConfig(N, 4, B, H, 3, 1, 1, norm, num_spks, activate, FALSE, FALSE,
                training) :
        N \in 2..MaxN, B \in Channels, H \in Channels, norm \in Norms,
        num_spks \in 1..MaxSpks, activate \in {"relu", "sigmoid", "softmax"},
        training \in BOOLEAN }
    \cup { DefaultConfig }

NetBatches ==
    { <<Tensor(<<b, 1, t2>>), Tensor(<<b, 1, t1>>)>> :
        b \in 1..MaxBatch, t1 \in 1..MaxT1, t2 \in 1..MaxT2 }
    \cup { <<Tensor(<<TestBatchSize, 1, TestSecondaryLen>>),
             Tensor(<<TestBatchSize, 1, TestPrimaryLen>>)>> }

InitNet ==
    /\ pc = "forward"
    /\ cfg \in NetConfigs
    /\ \E batch \in NetBatches : z = batch[1] /\ x = batch[2]
    /\ model = <<>>
    /\ Fresh

Forward ==
    /\ pc = "forward"
    /\ w' = Encoder(1, cfg.N, cfg.L, cfg.L \div 2, x)
    /\ w_acc' = IF IsTensor(w') THEN AccEncoder(1, cfg.N \div 2, z) ELSE None
    /\ out' = ConvTasNetTail(cfg, w', w_acc')
    /\ pc' = IF IsTensor(out') THEN "done" ELSE "raised"
    /\ UNCHANGED <<cfg, z, x, dep, skip_connection, sepVars, litVars>>

NextNet == Forward

SpecNet == InitNet /\ [][NextNet]_vars

\* The batch is ((batch, 1, T2), (batch, 1, T1)) with T1 >= L, and the two
\* encoders produced the same number of frames.
EncodersAgree ==
    /\ Rank(x) = 3 /\ Rank(z) = 3
    /\ x.shape[2] = 1 /\ z.shape[2] = 1 /\ x.shape[1] = z.shape[1]
    /\ x.shape[3] >= cfg.L
    /\ IsTensor(w) /\ IsTensor(w_acc)
    /\ w.shape[3] = w_acc.shape[3]

\* The separation blocks keep the frame count (an odd kernel size without
\* causality, a kernel size of 2 or more with it) and the normalisation
\* accepts the batch.
BlocksAccept ==
    /\ ~cfg.causal => cfg.P % 2 = 1
    /\ cfg.causal => cfg.P >= 2
    /\ ~(cfg.norm \notin {"gln", "cln"} /\ cfg.training
           /\ x.shape[1] * w.shape[3] = 1)

\* C1 as stated: forward returns a tensor of shape (batch, 1, T1).
C1_ReturnsInputLength ==
    (pc # "forward" /\ EncodersAgree /\ BlocksAccept)
    => /\ pc = "done"
       /\ out = Tensor(<<x.shape[1], 1, x.shape[3]>>)

\* C1, amended: when the two encoders agree on the frame count and the
\* separation blocks accept the input, forward returns a tensor of shape
\* (batch, 1, T') with T' = T1 - ((T1 - L) mod stride), for every batch
\* size (1 included); T' = T1 exactly when T1 - L is a multiple of the
\* stride.  When the blocks do not accept the input, forward raises.
C1_ReturnsRoundedLength ==
    (pc # "forward" /\ EncodersAgree)
    => IF BlocksAccept
       THEN /\ pc = "done"
            /\ out = Tensor(<<x.shape[1], 1,
                              x.shape[3] - ((x.shape[3] - cfg.L) % (cfg.L \div 2))>>)
       ELSE pc = "raised"

C1_Witness ==
    /\ pc = "done" /\ cfg.L = 4 /\ cfg.skip_con /\ cfg.X = 2
    /\ z.shape = <<1, 1, 2>> /\ x.shape = <<1, 1, 9>>
    /\ w_acc.shape[3] = 3 /\ out.shape = <<1, 1, 8>>

Module(cls, children) == [cls |-> cls, children |-> children]

Leaf(cls) == Module(cls, <<>>)

\* The classes a class derives from, itself included (as isinstance sees them).
Mro(cls) ==
    {cls, "Module"} \cup
    (IF cls = "Conv1D" THEN {"Conv1d"}
     ELSE IF cls = "ConvTrans1D" THEN {"ConvTranspose1d"}
     ELSE IF cls = "CumulativeLayerNorm" THEN {"LayerNorm"}
     ELSE {})

IsInstance(m, cls) == cls \in Mro(m.cls)

\* select_norm, as a module of the tree.
NormModule(norm) ==
    IF norm = "gln" THEN Leaf("GlobalLayerNorm")
    ELSE IF norm = "cln" THEN Leaf("CumulativeLayerNorm")
    ELSE Leaf("BatchNorm1d")

EncoderModule ==
    Module("Encoder", <<Module("Sequential",
        <<Leaf("Conv1D"), Leaf("Conv1D"), Leaf("PReLU"), Leaf("Conv1D"),
          Leaf("PReLU"), Leaf("Conv1D"), Leaf("PReLU")>>)>>)

AccEncoderModule ==
    Module("AccEncoder", <<Module("Sequential",
        <<Leaf("ConvTranspose1d"), Leaf("Conv1D"), Leaf("PReLU"),
          Leaf("Conv1D"), Leaf("PReLU")>>)>>)

DecoderModule ==
    Module("Decoder", <<Module("Sequential",
        <<Leaf("ConvTranspose1d"), Leaf("PReLU"), Leaf("ConvTranspose1d"),
          Leaf("PReLU"), Leaf("ConvTranspose1d"), Leaf("PReLU"),
          Leaf("ConvTranspose1d")>>)>>)

\* conv1x1, PReLU_1, norm_1, dwconv, PReLU_2, norm_2, Sc_conv, Output
BlockModule(norm) ==
    Module("Conv1D_Block",
        <<Leaf("Conv1D"), Leaf("PReLU"), NormModule(norm), Leaf("Conv1D"),
          Leaf("PReLU"), NormModule(norm), Leaf("Conv1d"), Leaf("Conv1d")>>)

SeparationModule(R, X, norm) ==
    Module("Separation",
        <<Module("ModuleList", [j \in 1..(R * X) |-> BlockModule(norm)])>>)

ActivationModule(activate) ==
    IF activate = "relu" THEN Leaf("ReLU")
    ELSE IF activate = "sigmoid" THEN Leaf("Sigmoid")
    ELSE Leaf("Softmax")

\* encoder, acc_encoder, LayerN_S, AccLayerN_S, BottleN_S, AccBottleN_S,
\* separation, conv1d, gen_masks, decoder, activation
ConvTasNetModule(R, X, norm, activate) ==
    Module("ConvTasNet",
        <<EncoderModule, AccEncoderModule, NormModule("cln"), NormModule("cln"),
          Leaf("Conv1D"), Leaf("Conv1D"), SeparationModule(R, X, norm),
          Leaf("Conv1d"), Leaf("Conv1D"), DecoderModule,
          ActivationModule(activate)>>)

\* A model of two-dimensional layers, as the wrapper may equally be given.
ImageModule ==
    Module("Sequential",
        <<Leaf("Conv2d"), Leaf("BatchNorm2d"), Leaf("ReLU"),
          Module("Sequential", <<Leaf("ConvTranspose2d"), Leaf("BatchNorm2d")>>),
          Leaf("Conv1d")>>)

RECURSIVE Flatten(_)
Flatten(seqs) == IF seqs = <<>> THEN <<>> ELSE Head(seqs) \o Flatten(Tail(seqs))

\* nn.Module.apply(fn): fn is applied to the children's subtrees first, in
\* order, and to the module itself last.  The paths in that order.
RECURSIVE ApplyOrder(_, _)
ApplyOrder(m, path) ==
    Strict(LAMBDA v :
      Flatten([k \in 1..Len(v.children) |->
                  ApplyOrder(v.children[k], Append(path, k))]) \o <<path>>,
      m)

RECURSIVE Sub(_, _)
Sub(m, path) == IF path = <<>> THEN m ELSE Sub(m.children[Head(path)], Tail(path))

Paths(m) == LET order == ApplyOrder(m, <<>>) IN { order[k] : k \in 1..Len(order) }

\* LitMultimodalModel.weights_init(m): the modules it was called on and the
\* modules whose weights and biases it set.
RECURSIVE weights_init(_, _)
weights_init(m, path) ==
    Strict(LAMBDA v :
      IF IsInstance(v, "Conv2d") \/ IsInstance(v, "ConvTranspose2d")
      THEN [visited |-> {path}, inited |-> {path}]
      ELSE IF IsInstance(v, "BatchNorm2d")
      THEN [visited |-> {path}, inited |-> {path}]
      ELSE IF IsInstance(v, "Module")
      THEN [visited |-> {path} \cup UNION { weights_init(
                             v.children[k], Append(path, k)).visited :
                                 k \in 1..Len(v.children) },
            inited  |-> UNION { weights_init(
                             v.children[k], Append(path, k)).inited :
                                 k \in 1..Len(v.children) }]
      ELSE [visited |-> {path}, inited |-> {}],
      m)

InitLit ==
    /\ pc = "lit_init"
    /\ model \in { ConvTasNetModule(R, X, norm, activate) :
                     R \in 1..MaxR, X \in 1..MaxX, norm \in Norms,
                     activate \in {"relu", "sigmoid", "softmax"} }
                 \cup { ImageModule }
    /\ cfg = <<>> /\ z = None /\ x = None
    /\ Fresh

\* self.model = model; self.model.apply(self.weights_init) is entered.
LitConstruct ==
    /\ pc = "lit_init"
    /\ todo' = ApplyOrder(model, <<>>)
    /\ pc' = "apply"
    /\ UNCHANGED <<cfg, z, x, w, w_acc, out, dep, skip_connection, sepVars,
                   model, visited, inited>>

\* apply calls weights_init on the next module of its traversal.
ApplyNext ==
    /\ pc = "apply" /\ todo # <<>>
    /\ LET res == weights_init(Sub(model, Head(todo)), Head(todo))
       IN  /\ visited' = visited \cup res.visited
           /\ inited' = inited \cup res.inited
    /\ todo' = Tail(todo)
    /\ UNCHANGED <<pc, cfg, z, x, w, w_acc, out, dep, skip_connection, sepVars,
                   model>>

\* apply returns; the constructor ends.
ApplyReturn ==
    /\ pc = "apply" /\ todo = <<>>
    /\ pc' = "done"
    /\ UNCHANGED <<cfg, z, x, w, w_acc, out, dep, skip_connection, sepVars,
                   litVars>>

NextLit == LitConstruct \/ ApplyNext \/ ApplyReturn

SpecLit == InitLit /\ [][NextLit]_vars

\* The convolution and batch-normalisation classes, of either dimension.
IsConvOrBatchNorm(m) ==
    \E c \in {"Conv1d", "ConvTranspose1d", "BatchNorm1d",
              "Conv2d", "ConvTranspose2d", "BatchNorm2d"} : IsInstance(m, c)

\* C10: once LitMultimodalModel is constructed, the traversal has reached
\* every module of the model's tree and the initialisation policy has been
\* applied to every convolution and batch-normalisation module in it, the
\* one-dimensional ones included.
C10_EveryConvInitialised ==
    pc = "done"
    => /\ visited = Paths(model)
       /\ \A p \in Paths(model) :
             IsConvOrBatchNorm(Sub(model, p)) => p \in inited

=============================================================================
